---- MODULE Spec2Model ----
(***************************************************************************)
(* Model of the authentication lifecycle controller ZgsmAuthService        *)
(* (src/src/core/auth/authService.ts) with its collaborators AuthApi,      *)
(* AuthStorage, AuthConfig and retryWrapper.                               *)
(*                                                                         *)
(* The controller runs on one JavaScript event loop.  An action of this    *)
(* model is one run-to-completion step of that loop: a public call up to   *)
(* its first network await, the arrival of a network response together     *)
(* with every continuation it triggers, or the firing of a timer.  The     *)
(* in-process awaits on the settings store (clineProvider.getState) are    *)
(* taken together with the step that contains them.                        *)
(***************************************************************************)
EXTENDS Integers, Sequences, FiniteSets, TLC

\* ------------------------------------------------------------------ bounds
MaxLogins == 2          \* startLogin() calls in one behaviour
MaxLogouts == 1         \* logout() calls in one behaviour
MaxManual == 1          \* direct refreshToken() calls in one behaviour
MaxRefreshOps == 1      \* refreshToken() calls that may be in progress at once
MaxRequests == 4        \* network responses delivered in one behaviour
RapidRequests == 2      \* network responses delivered in a burst of startLogin() calls
MaxRetryArg == 3        \* largest maxAttempt argument given to retryWrapper on its own
MaxSaves == 3           \* calls made on the storage on its own

\* ------------------------------------------------------- program constants
maxAttempt == 60                \* getStartLoginTokenPoll / startWaitLoginPolling
DefaultMaxAttempt == 3          \* retryWrapper's default maxAttempt
PollLoginStateMaxAttempt == 0   \* retryWrapper argument in pollLoginState
StartupMaxAttempt == 2          \* retryWrapper argument in checkLoginStatusOnStartup

\* ------------------------------------------------------------------ values
Calls == 1..(MaxLogins + 1)
RefreshSlots == 1..(MaxRefreshOps + 1)
\* A session id ("state" string).  generateRandomString() gives every
\* startLogin() call a fresh one: call c generates session id c.
NoState == 0            \* undefined / missing
PriorSession == -1      \* the session of tokens persisted by an earlier process
Empty == <<>>           \* "" or undefined token
AccessToken(s, g) == <<"access", s, g>>       \* g-th access token of session s
RefreshTokenOf(s, g) == <<"refresh", s, g>>   \* g-th refresh token of session s
\* a refresh token that is not a three-part JWT
BadRefreshToken(s, g) == <<"refresh", s, g, "not a JWT">>
TokenSession(t) == IF t = Empty THEN NoState ELSE t[2]
TokenGen(t) == IF t = Empty THEN 0 ELSE t[3]

LOGGED_IN == "logged_in"
LOGGING_IN == "logging_in"

NoTokens == [access_token |-> Empty, refresh_token |-> Empty, state |-> NoState]
PriorTokens == [access_token |-> AccessToken(PriorSession, 0),
                refresh_token |-> RefreshTokenOf(PriorSession, 0),
                state |-> PriorSession]

VARIABLES
    disposed,                     \* this.disposed
    loginStateTmp,                \* this.loginStateTmp: 0 or the object of a call
    obj,                          \* the LoginState objects made by generateLoginState
    nCalls,                       \* startLogin() calls begun
    pc,                           \* where each startLogin() call stands
    chain,                        \* the run() closure of each getStartLoginTokenPoll
    startLoginTokenPollInterval,  \* handle: 0 or the chain whose timer it names
    conf,                         \* the pollLoginState closure of each startWaitLoginPolling
    waitLoginPollingInterval,     \* handle: 0 or the confirmation poll whose timer it names
    tokenRefreshInterval,         \* the armed setInterval and its captured arguments
    refreshOps,                   \* refreshToken() calls in progress
    store,                        \* zgsmAccessToken / zgsmRefreshToken / zgsmState
    logout,                       \* the logout() call in progress
    lim,                          \* calls and network responses the behaviour may still make
    firstWrite,                   \* history: nCalls when a session's tokens were first saved
    logoutMark,                   \* history: 0, or 1 + nCalls when logout() last completed
    callsAtDispose,               \* history: -1, or nCalls when dispose() first ran
    last,                         \* history: the step just taken
    timing,                       \* a getTokenRefreshInterval / startTokenRefresh evaluation
    retry,                        \* a retryWrapper call on its own
    startup,                      \* the checkLoginStatusOnStartup() call of plugin activation
    storage                       \* AuthStorage: its provider, and the writes it has made

vars == <<disposed, loginStateTmp, obj, nCalls, pc, chain, startLoginTokenPollInterval,
          conf, waitLoginPollingInterval, tokenRefreshInterval, refreshOps, store,
          logout, lim, firstWrite, logoutMark, callsAtDispose, last,
          timing, retry, startup, storage>>

\* the controller's fields, its store and their history
ctlVars == <<disposed, loginStateTmp, obj, nCalls, pc, chain, startLoginTokenPollInterval,
             conf, waitLoginPollingInterval, tokenRefreshInterval, refreshOps, store,
             logout, lim, firstWrite, logoutMark, callsAtDispose, last>>

\* the variables of the calls studied on their own
utilVars == <<timing, retry, startup, storage>>

\* leaked counts the setInterval timers still alive that the handle no longer names
NoTimer == [armed |-> FALSE, refreshToken |-> Empty, state |-> NoState, leaked |-> 0]
NoOp == [st |-> "none", attempt |-> 0, refreshToken |-> Empty, state |-> NoState,
         auto |-> FALSE, timer |-> FALSE]
NoReply == [ok |-> TRUE, success |-> FALSE, access_token |-> Empty,
            refresh_token |-> Empty, state |-> NoState, status |-> "none"]
Step(op, who, reply, notes) == [op |-> op, who |-> who, reply |-> reply, notes |-> notes]
NoTiming == [fn |-> "none"]
NoError == [kind |-> "none", message |-> "none"]
NoOutcome == [ok |-> TRUE, value |-> "none", error |-> NoError]
NoRetry == [st |-> "none", given |-> FALSE, maxAttempt |-> 0, attempt |-> 0, calls |-> 0,
            waits |-> 0, delay |-> 0, outcome |-> NoOutcome, lastError |-> NoError,
            result |-> "none", raised |-> NoError]
NoStartup == [st |-> "none", attempt |-> 0, calls |-> 0, result |-> FALSE,
              reply |-> NoReply]
\* the service always hands its provider to the storage (authService.ts:25-28);
\* the provider has a current profile
NoWrites == [provider |-> TRUE, profile |-> TRUE, saves |-> 0, writes |-> 0,
             op |-> "none", argument |-> NoTokens, before |-> NoTokens,
             fresh |-> FALSE, read |-> NoTokens]
UtilIdle ==
    /\ timing = NoTiming
    /\ retry = NoRetry
    /\ startup = NoStartup
    /\ storage = NoWrites

\* The behaviours explored: a controller driven through logins and logouts, and
\* a controller with at most one login on which refreshToken() is called directly.
Scenarios ==
    { [logins |-> MaxLogins, logouts |-> MaxLogouts, manual |-> 0, ops |-> MaxRefreshOps,
       requests |-> MaxRequests],
      [logins |-> 1, logouts |-> 0, manual |-> MaxManual, ops |-> MaxRefreshOps,
       requests |-> MaxRequests] }

Init ==
    /\ disposed = FALSE
    /\ loginStateTmp = 0
    /\ obj = [c \in Calls |-> NoTokens]
    /\ nCalls = 0
    /\ pc = [c \in Calls |-> "idle"]
    /\ chain = [c \in Calls |-> [st |-> "none", attempt |-> 0, state |-> NoState]]
    /\ startLoginTokenPollInterval = 0
    /\ conf = [c \in Calls |-> [st |-> "none", attempt |-> 0, loginState |-> 0]]
    /\ waitLoginPollingInterval = 0
    /\ tokenRefreshInterval = NoTimer
    /\ refreshOps = [i \in RefreshSlots |-> NoOp]
    /\ store \in {NoTokens, PriorTokens}
    /\ logout = "idle"
    /\ lim \in Scenarios
    /\ firstWrite = [s \in Calls |-> 0]
    /\ logoutMark = 0
    /\ callsAtDispose = -1
    /\ last = Step("init", 0, NoReply, {})
    /\ UtilIdle


\* this.loginStateTmp?.state
ActiveState == IF loginStateTmp = 0 THEN NoState ELSE obj[loginStateTmp].state

\* ------------------------------------------------------------ environment
\* What the identity service may answer.  The session id in an answer is the one
\* asked about or any other one; tokens are issued for the session asked about.
ReplyStates == {NoState} \cup (1..nCalls)
Reply(success, access, refresh, state, status) ==
    [ok |-> TRUE, success |-> success, access_token |-> access,
     refresh_token |-> refresh, state |-> state, status |-> status]
ErrorReply == [NoReply EXCEPT !.ok = FALSE]      \* transport failure or non-2xx

\* answers to the token request for session q of getStartLoginTokenPoll
TokenReplies(q) ==
    {ErrorReply,
     Reply(TRUE, Empty, Empty, NoState, "none"),
     Reply(TRUE, AccessToken(q, 0), Empty, q, "none"),
     Reply(TRUE, Empty, RefreshTokenOf(q, 0), q, "none")}
    \cup {Reply(TRUE, AccessToken(q, 0), RefreshTokenOf(q, 0), s, "none") :
            s \in ReplyStates \cup {q}}
    \cup {Reply(TRUE, AccessToken(q, 0), BadRefreshToken(q, 0), q, "none")}

\* answers to the status request of pollLoginState
StatusReplies ==
    {ErrorReply}
    \cup {Reply(TRUE, Empty, Empty, s, st) :
            s \in ReplyStates, st \in {LOGGED_IN, LOGGING_IN}}
    \cup {Reply(FALSE, Empty, Empty, s, LOGGED_IN) : s \in ReplyStates \ {NoState}}

\* answers to the token request of refreshToken(rt, machineId, q)
NextAccess(rt) == AccessToken(TokenSession(rt), TokenGen(rt) + 1)
NextRefresh(rt) == RefreshTokenOf(TokenSession(rt), TokenGen(rt) + 1)
NextBadRefresh(rt) == BadRefreshToken(TokenSession(rt), TokenGen(rt) + 1)
RefreshReplies(rt, q) ==
    {ErrorReply,
     Reply(TRUE, Empty, Empty, q, "none"),
     Reply(TRUE, NextAccess(rt), Empty, q, "none"),
     Reply(TRUE, Empty, NextRefresh(rt), q, "none"),
     Reply(FALSE, NextAccess(rt), NextRefresh(rt), q, "none")}
    \cup {Reply(TRUE, NextAccess(rt), NextRefresh(rt), s, "none") :
            s \in ReplyStates \cup {q}}
    \cup {Reply(TRUE, NextAccess(rt), NextBadRefresh(rt), s, "none") :
            s \in {q, ActiveState}}
RevokeOutcomes == {"ok", "httpError", "transportError"}

\* ---------------------------------------------------------------- helpers
Max(a, b) == IF a > b THEN a ELSE b

\* retryWrapper: after a failed attempt and its delay, is fn() called again?
RetryAgainOnce(attempt, maxAttempts) == attempt + 1 < 2
RetryAgainInclusive(attempt, maxAttempts) == attempt + 1 <= Max(1, maxAttempts)
RetryAgain(attempt, maxAttempts) == attempt + 1 < Max(1, maxAttempts)

\* stopStartLoginTokenPoll: clears the timer the handle names, if it is pending
stopStartLoginTokenPoll(ch, h) ==
    IF h # 0 /\ ch[h].st = "timer" THEN [ch EXCEPT ![h].st = "cancelled"] ELSE ch

\* stopWaitLoginPolling: clears the timer the handle names, if it is pending
stopWaitLoginPolling(cf, h) ==
    IF h # 0 /\ cf[h].st = "timer" THEN [cf EXCEPT ![h].st = "cancelled"] ELSE cf

\* parseJwt: does it throw "Invalid JWT"?
parseJwtThrows(token) == Len(token) # 3

\* AuthConfig.getTokenRefreshInterval: does it throw?  Without a token it
\* returns the 24 h default and parses nothing.
getTokenRefreshIntervalThrows(refreshToken) ==
    refreshToken # Empty /\ parseJwtThrows(refreshToken)

\* startTokenRefresh: does it throw?  The interval is computed after
\* stopRefreshToken and the disposed test, before setInterval is called.
startTokenRefreshThrows(refreshToken) ==
    ~disposed /\ getTokenRefreshIntervalThrows(refreshToken)

\* stopRefreshToken: clears the interval the handle names and the handle
stopRefreshToken(t) == [NoTimer EXCEPT !.leaked = t.leaked]

\* this.tokenRefreshInterval = setInterval(callback, interval, refreshToken,
\* machineId, state): an interval the handle named before stays alive, unnamed
setIntervalOver(t, refreshToken, state) ==
    [armed |-> TRUE, refreshToken |-> refreshToken, state |-> state,
     leaked |-> IF t.armed THEN t.leaked + 1 ELSE t.leaked]

\* startTokenRefresh: stopRefreshToken, then arm unless disposed
startTokenRefreshNoStop(refreshToken, state) ==
    IF disposed \/ startTokenRefreshThrows(refreshToken) THEN tokenRefreshInterval
    ELSE setIntervalOver(tokenRefreshInterval, refreshToken, state)
startTokenRefreshAnyway(refreshToken, state) ==
    IF startTokenRefreshThrows(refreshToken) THEN stopRefreshToken(tokenRefreshInterval)
    ELSE setIntervalOver(stopRefreshToken(tokenRefreshInterval), refreshToken, state)
startTokenRefresh(refreshToken, state) ==
    IF disposed \/ startTokenRefreshThrows(refreshToken)
    THEN stopRefreshToken(tokenRefreshInterval)
    ELSE setIntervalOver(stopRefreshToken(tokenRefreshInterval), refreshToken, state)

\* the acceptance test of run() in getStartLoginTokenPoll
TokenPollAcceptsAccessOnly(reply, state) ==
    /\ reply.access_token # Empty
    /\ reply.state = state
TokenPollAccepts(reply, state) ==
    /\ reply.access_token # Empty
    /\ reply.refresh_token # Empty
    /\ reply.state = state

\* the success test of pollLoginState
LoginConfirmedAnyState(reply, active) ==
    /\ reply.success
    /\ reply.state # NoState
    /\ reply.status = LOGGED_IN
LoginConfirmed(reply, active) ==
    /\ reply.success
    /\ reply.state # NoState
    /\ reply.state = active
    /\ reply.status = LOGGED_IN

\* the acceptance test of refreshToken
RefreshAcceptsAccessOnly(reply, active) ==
    /\ reply.success
    /\ reply.access_token # Empty
    /\ active = reply.state
RefreshAcceptsAnyState(reply, active) ==
    /\ reply.success
    /\ reply.access_token # Empty
    /\ reply.refresh_token # Empty
RefreshAcceptsWithSession(reply, active) ==
    /\ reply.success
    /\ reply.access_token # Empty
    /\ reply.refresh_token # Empty
    /\ active # NoState
    /\ active = reply.state
RefreshAccepts(reply, active) ==
    /\ reply.success
    /\ reply.access_token # Empty
    /\ reply.refresh_token # Empty
    /\ active = reply.state

\* the ceiling test of run() in getStartLoginTokenPoll, after attempt++
TokenPollExhaustedLate(attempt) == attempt > maxAttempt + 1
TokenPollExhausted(attempt) == attempt > maxAttempt

\* the ceiling test of pollLoginState, on ++attempt
PollExhausted(attempt) == attempt > maxAttempt

\* the disposed test of getStartLoginTokenPoll
RejectsDisposedNever(d) == FALSE
RejectsDisposed(d) == d

\* AuthApi.logoutUser: does the call reject?  Its whole body is inside try/catch.
logoutUserThrowsOnTransport(outcome) == outcome = "transportError"
logoutUserThrows(outcome) == FALSE

\* the AuthTokens fields of a response's data, or of a LoginState object
TokensOf(data) ==
    [access_token |-> data.access_token, refresh_token |-> data.refresh_token,
     state |-> data.state]

\* authStorage.ts lines 38-42, 74-78, 101-105: without a provider or a current
\* profile nothing is written
SavesNothing == ~storage.provider \/ ~storage.profile

\* AuthStorage.saveTokens: the store's three values after the call
saveTokensKeepsState(tokens) ==
    [store EXCEPT !.access_token = tokens.access_token,
                  !.refresh_token = tokens.refresh_token]
saveTokens(tokens) == TokensOf(tokens)

\* AuthStorage.clearAllLoginState: the store's three values after the call
clearAllLoginState == NoTokens

\* the store after `await this.storage.saveTokens(tokens)` and after
\* `await this.storage.clearAllLoginState()`
Saved(tokens) == IF SavesNothing THEN store ELSE saveTokens(tokens)
Cleared == IF SavesNothing THEN store ELSE clearAllLoginState

\* history: the first save of a session's tokens, stamped with the newest call
Stamp(fw, tokens) ==
    LET s == TokenSession(tokens.access_token)
    IN  IF s \in Calls /\ fw[s] = 0 THEN [fw EXCEPT ![s] = nCalls] ELSE fw

\* the refreshToken() calls in progress; the behaviour explored starts a new one
\* only while fewer than lim.ops are in progress
InProgress == {i \in RefreshSlots : refreshOps[i].st # "none"}
FreeOps == IF Cardinality(InProgress) < lim.ops THEN RefreshSlots \ InProgress ELSE {}
FirstFree == CHOOSE i \in FreeOps : \A j \in FreeOps : i <= j

\* ---------------------------------------------------------------- startLogin
\* startLogin() up to its first await (buildLoginUrl / openExternal)
StartLogin ==
    /\ lim.logins > 0
    /\ lim' = [lim EXCEPT !.logins = lim.logins - 1]
    /\ nCalls' = nCalls + 1
    /\ conf' = stopWaitLoginPolling(conf, waitLoginPollingInterval)
    /\ waitLoginPollingInterval' = 0
    /\ tokenRefreshInterval' = stopRefreshToken(tokenRefreshInterval)
    /\ chain' = stopStartLoginTokenPoll(chain, startLoginTokenPollInterval)
    /\ startLoginTokenPollInterval' = 0
    /\ loginStateTmp' = nCalls + 1
    /\ obj' = [obj EXCEPT ![nCalls + 1] = [NoTokens EXCEPT !.state = nCalls + 1]]
    /\ pc' = [pc EXCEPT ![nCalls + 1] = "opening"]
    /\ last' = Step("startLogin", nCalls + 1, NoReply, {})
    /\ UNCHANGED utilVars
    /\ UNCHANGED <<disposed, refreshOps, store, logout, firstWrite, logoutMark,
                   callsAtDispose>>

\* how the awaits of lines 97-100 end: openExternal resolves true, resolves
\* false (the page could not be opened), or one of them rejects
OpenOutcomes == {"opened", "notOpened", "threw"}

\* openExternal settles; unless an await rejected, getStartLoginTokenPoll starts
\* and run() issues its first token request
StartLoginOpened(c, outcome) ==
    /\ pc[c] = "opening"
    /\ (outcome # "threw" /\ ~RejectsDisposed(disposed)) => lim.requests > 0
    /\ IF outcome = "threw"
       THEN /\ pc' = [pc EXCEPT ![c] = "failed_open"]
            /\ last' = Step("openFailed", c, [NoReply EXCEPT !.status = outcome],
                            {"loginFailed"})
            /\ UNCHANGED <<chain, startLoginTokenPollInterval>>
       ELSE /\ startLoginTokenPollInterval' = 0
            /\ IF RejectsDisposed(disposed)
               THEN /\ pc' = [pc EXCEPT ![c] = "failed_disposed"]
                    /\ chain' = stopStartLoginTokenPoll(chain, startLoginTokenPollInterval)
                    /\ last' = Step("rejectDisposed", c,
                                    [NoReply EXCEPT !.status = outcome], {"loginFailed"})
               ELSE /\ pc' = [pc EXCEPT ![c] = "polling"]
                    /\ chain' = [stopStartLoginTokenPoll(chain, startLoginTokenPollInterval)
                                   EXCEPT ![c] = [st |-> "inflight", attempt |-> 1,
                                                  state |-> ActiveState]]
                    /\ last' = Step("pollStarted", c,
                                    [NoReply EXCEPT !.status = outcome], {"loginStarted"})
    /\ UNCHANGED utilVars
    /\ UNCHANGED <<disposed, loginStateTmp, obj, nCalls, conf, waitLoginPollingInterval,
                   tokenRefreshInterval, refreshOps, store, logout, lim, firstWrite,
                   logoutMark, callsAtDispose>>

\* the answer to a token request of run(): .then / .catch, and on acceptance the
\* rest of startLogin() with the first status request of startWaitLoginPolling
TokenPollReply(c, reply) ==
    /\ chain[c].st = "inflight"
    /\ lim.requests > 0
    /\ reply \in TokenReplies(chain[c].state)
    /\ lim' = [lim EXCEPT !.requests = lim.requests - 1]
    /\ IF ~reply.ok
       THEN /\ chain' = [chain EXCEPT ![c].st = "errored"]
            /\ last' = Step("tokenError", c, reply, {})
            /\ UNCHANGED <<startLoginTokenPollInterval, obj, conf, pc>>
       ELSE IF TokenPollAccepts(reply, chain[c].state)
       THEN /\ chain' = [stopStartLoginTokenPoll(chain, startLoginTokenPollInterval)
                           EXCEPT ![c].st = "resolved"]
            /\ startLoginTokenPollInterval' = 0
            /\ obj' = [obj EXCEPT ![loginStateTmp] = TokensOf(reply)]
            /\ conf' = [conf EXCEPT ![c] = [st |-> "inflight", attempt |-> 0,
                                             loginState |-> loginStateTmp]]
            /\ pc' = [pc EXCEPT ![c] = "returned"]
            /\ last' = Step("tokenAccepted", c, reply, {})
       ELSE /\ chain' = [chain EXCEPT ![c].st = "timer"]
            /\ startLoginTokenPollInterval' = c
            /\ last' = Step("tokenPending", c, reply, {})
            /\ UNCHANGED <<obj, conf, pc>>
    /\ UNCHANGED utilVars
    /\ UNCHANGED <<disposed, loginStateTmp, nCalls, waitLoginPollingInterval,
                   tokenRefreshInterval, refreshOps, store, logout, firstWrite,
                   logoutMark, callsAtDispose>>

\* the 3000 ms timer of run() fires
TokenPollFire(c) ==
    /\ chain[c].st = "timer"
    /\ IF TokenPollExhausted(chain[c].attempt + 1)
       THEN /\ chain' = [stopStartLoginTokenPoll(
                            [chain EXCEPT ![c].st = "running"], startLoginTokenPollInterval)
                           EXCEPT ![c] = [@ EXCEPT !.st = "rejected",
                                                   !.attempt = chain[c].attempt + 1]]
            /\ startLoginTokenPollInterval' = 0
            /\ pc' = [pc EXCEPT ![c] = "failed_timeout"]
            /\ last' = Step("tokenTimeout", c, NoReply, {"loginFailed"})
       ELSE /\ chain' = [chain EXCEPT ![c] = [@ EXCEPT !.st = "inflight",
                                                       !.attempt = chain[c].attempt + 1]]
            /\ last' = Step("tokenFire", c, NoReply, {})
            /\ UNCHANGED <<startLoginTokenPollInterval, pc>>
    /\ UNCHANGED utilVars
    /\ UNCHANGED <<disposed, loginStateTmp, obj, nCalls, conf, waitLoginPollingInterval,
                   tokenRefreshInterval, refreshOps, store, logout, lim, firstWrite,
                   logoutMark, callsAtDispose>>


\* ------------------------------------------------------- confirmation poll
\* lines 198-204 of pollLoginState: count the attempt, give up or re-arm
\* cf and h are the closures and the handle as the code before line 198 left them
AfterPollFromRethrows(cf, h, c, op, reply) ==
    IF op = "confThrown"
    THEN /\ conf' = [cf EXCEPT ![c].st = "failed"]
         /\ last' = Step(op, c, reply, {})
         /\ waitLoginPollingInterval' = h
    ELSE IF PollExhausted(cf[c].attempt + 1)
    THEN /\ conf' = [cf EXCEPT ![c] = [@ EXCEPT !.st = "timeout",
                                                !.attempt = cf[c].attempt + 1]]
         /\ last' = Step(op \o "Timeout", c, reply, {"loginTimeout"})
         /\ waitLoginPollingInterval' = h
    ELSE /\ conf' = [cf EXCEPT ![c] = [@ EXCEPT !.st = "timer",
                                                !.attempt = cf[c].attempt + 1]]
         /\ waitLoginPollingInterval' = c
         /\ last' = Step(op, c, reply, {})
AfterPollFrom(cf, h, c, op, reply) ==
    IF PollExhausted(cf[c].attempt + 1)
    THEN /\ conf' = [cf EXCEPT ![c] = [@ EXCEPT !.st = "timeout",
                                                !.attempt = cf[c].attempt + 1]]
         /\ last' = Step(op \o "Timeout", c, reply, {"loginTimeout"})
         /\ waitLoginPollingInterval' = h
    ELSE /\ conf' = [cf EXCEPT ![c] = [@ EXCEPT !.st = "timer",
                                                !.attempt = cf[c].attempt + 1]]
         /\ waitLoginPollingInterval' = c
         /\ last' = Step(op, c, reply, {})
AfterPoll(c, op, reply) == AfterPollFrom(conf, waitLoginPollingInterval, c, op, reply)

\* the answer to a status request of pollLoginState
ConfReply(c, reply) ==
    /\ conf[c].st = "inflight"
    /\ lim.requests > 0
    /\ reply \in StatusReplies
    /\ lim' = [lim EXCEPT !.requests = lim.requests - 1]
    /\ IF ~reply.ok
       THEN \* retryWrapper catches and waits interval(0)
            /\ conf' = [conf EXCEPT ![c].st = "backoff"]
            /\ last' = Step("confError", c, reply, {})
            /\ UNCHANGED <<waitLoginPollingInterval, tokenRefreshInterval, store,
                           firstWrite, logoutMark>>
       ELSE IF LoginConfirmed(reply, ActiveState)
       THEN /\ store' = Saved(obj[conf[c].loginState])
            /\ firstWrite' = IF SavesNothing THEN firstWrite
                             ELSE Stamp(firstWrite, obj[conf[c].loginState])
            /\ tokenRefreshInterval' =
                  startTokenRefresh(obj[conf[c].loginState].refresh_token,
                                    obj[conf[c].loginState].state)
            /\ logoutMark' = IF logoutMark # 0 /\ c >= logoutMark THEN 0 ELSE logoutMark
            /\ IF startTokenRefreshThrows(obj[conf[c].loginState].refresh_token)
               THEN \* thrown at line 182 into the catch of line 194
                    AfterPollFrom(stopWaitLoginPolling(conf, waitLoginPollingInterval), 0,
                                  c, "confirmedThrew", reply)
               ELSE /\ conf' = [stopWaitLoginPolling(conf, waitLoginPollingInterval)
                                  EXCEPT ![c].st = "done"]
                    /\ waitLoginPollingInterval' = 0
                    /\ last' = Step("confirmed", c, reply, {"loginSuccess"})
       ELSE /\ AfterPoll(c, "confPending", reply)
            /\ UNCHANGED <<tokenRefreshInterval, store, firstWrite, logoutMark>>
    /\ UNCHANGED utilVars
    /\ UNCHANGED <<disposed, loginStateTmp, obj, nCalls, pc, chain,
                   startLoginTokenPollInterval, refreshOps, logout, callsAtDispose>>

\* retryWrapper's delay after the failed status request is over: with
\* maxAttempt 0 the loop ends and the error is thrown into pollLoginState's catch
ConfBackoffDone(c) ==
    /\ conf[c].st = "backoff"
    /\ IF RetryAgain(0, PollLoginStateMaxAttempt)
       THEN /\ conf' = [conf EXCEPT ![c].st = "inflight"]
            /\ last' = Step("confRetry", c, NoReply, {})
            /\ UNCHANGED waitLoginPollingInterval
       ELSE AfterPoll(c, "confThrown", ErrorReply)
    /\ UNCHANGED utilVars
    /\ UNCHANGED <<disposed, loginStateTmp, obj, nCalls, pc, chain,
                   startLoginTokenPollInterval, tokenRefreshInterval, refreshOps, store,
                   logout, lim, firstWrite, logoutMark, callsAtDispose>>

\* the polling-interval timer of pollLoginState fires
ConfFire(c) ==
    /\ conf[c].st = "timer"
    /\ conf' = [conf EXCEPT ![c].st = "inflight"]
    /\ last' = Step("confFire", c, NoReply, {})
    /\ UNCHANGED utilVars
    /\ UNCHANGED <<disposed, loginStateTmp, obj, nCalls, pc, chain,
                   startLoginTokenPollInterval, waitLoginPollingInterval,
                   tokenRefreshInterval, refreshOps, store, logout, lim, firstWrite,
                   logoutMark, callsAtDispose>>

\* ------------------------------------------------------------------ refresh
\* the setInterval callback of startTokenRefresh fires and calls refreshToken
RefreshFire ==
    /\ tokenRefreshInterval.armed
    /\ lim.requests > 0
    /\ FreeOps # {}
    /\ refreshOps' = [refreshOps EXCEPT ![FirstFree] =
                         [st |-> "inflight", attempt |-> 0,
                          refreshToken |-> tokenRefreshInterval.refreshToken,
                          state |-> tokenRefreshInterval.state,
                          auto |-> TRUE, timer |-> TRUE]]
    /\ last' = Step("refreshFire", FirstFree, NoReply, {})
    /\ UNCHANGED utilVars
    /\ UNCHANGED <<disposed, loginStateTmp, obj, nCalls, pc, chain,
                   startLoginTokenPollInterval, conf, waitLoginPollingInterval,
                   tokenRefreshInterval, store, logout, lim, firstWrite, logoutMark,
                   callsAtDispose>>

\* a direct refreshToken(refreshToken, machineId, state, auto) call with the
\* persisted refresh token and state
ManualRefresh(auto) ==
    /\ lim.manual > 0
    /\ lim.requests > 0
    /\ store.refresh_token # Empty
    /\ FreeOps # {}
    /\ lim' = [lim EXCEPT !.manual = lim.manual - 1]
    /\ refreshOps' = [refreshOps EXCEPT ![FirstFree] =
                         [st |-> "inflight", attempt |-> 0,
                          refreshToken |-> store.refresh_token, state |-> store.state,
                          auto |-> auto, timer |-> FALSE]]
    /\ last' = Step("refreshCall", FirstFree, NoReply, {})
    /\ UNCHANGED utilVars
    /\ UNCHANGED <<disposed, loginStateTmp, obj, nCalls, pc, chain,
                   startLoginTokenPollInterval, conf, waitLoginPollingInterval,
                   tokenRefreshInterval, store, logout, firstWrite, logoutMark,
                   callsAtDispose>>

\* what the caller of a failed refreshToken does: the timer callback shows the
\* refresh-failure message, a direct caller receives the error
RefreshFailureNotes(op) == IF op.timer THEN {"refreshFailed"} ELSE {}

\* the answer to the token request of refreshToken
RefreshReply(i, reply) ==
    /\ refreshOps[i].st = "inflight"
    /\ lim.requests > 0
    /\ reply \in RefreshReplies(refreshOps[i].refreshToken, refreshOps[i].state)
    /\ lim' = [lim EXCEPT !.requests = lim.requests - 1]
    /\ IF ~reply.ok
       THEN \* retryWrapper catches and waits interval(attempt)
            /\ refreshOps' = [refreshOps EXCEPT ![i].st = "backoff"]
            /\ last' = Step("refreshError", i, reply, {})
            /\ UNCHANGED <<store, tokenRefreshInterval, firstWrite>>
       ELSE IF RefreshAccepts(reply, ActiveState)
       THEN /\ store' = Saved(reply)
            /\ firstWrite' = IF SavesNothing THEN firstWrite
                             ELSE Stamp(firstWrite, reply)
            /\ tokenRefreshInterval' =
                  IF refreshOps[i].auto
                  THEN startTokenRefresh(reply.refresh_token, refreshOps[i].state)
                  ELSE tokenRefreshInterval
            /\ refreshOps' = [refreshOps EXCEPT ![i] = NoOp]
            /\ last' = IF refreshOps[i].auto /\ startTokenRefreshThrows(reply.refresh_token)
                       THEN \* thrown at line 280, rethrown by the catch of line 287
                            Step("refreshedThrew", i, reply,
                                 RefreshFailureNotes(refreshOps[i]))
                       ELSE Step("refreshed", i, reply,
                                 IF refreshOps[i].auto THEN {"auto"} ELSE {})
       ELSE /\ refreshOps' = [refreshOps EXCEPT ![i] = NoOp]
            /\ last' = Step("refreshRejected", i, reply, RefreshFailureNotes(refreshOps[i]))
            /\ UNCHANGED <<store, tokenRefreshInterval, firstWrite>>
    /\ UNCHANGED utilVars
    /\ UNCHANGED <<disposed, loginStateTmp, obj, nCalls, pc, chain,
                   startLoginTokenPollInterval, conf, waitLoginPollingInterval, logout,
                   logoutMark, callsAtDispose>>

\* retryWrapper's delay after a failed refresh request is over
RefreshBackoffDone(i) ==
    /\ refreshOps[i].st = "backoff"
    /\ IF RetryAgain(refreshOps[i].attempt, DefaultMaxAttempt)
       THEN /\ refreshOps' = [refreshOps EXCEPT ![i] =
                                 [@ EXCEPT !.st = "inflight",
                                           !.attempt = refreshOps[i].attempt + 1]]
            /\ last' = Step("refreshRetry", i, NoReply, {})
       ELSE /\ refreshOps' = [refreshOps EXCEPT ![i] = NoOp]
            /\ last' = Step("refreshThrown", i, ErrorReply,
                            RefreshFailureNotes(refreshOps[i]))
    /\ UNCHANGED utilVars
    /\ UNCHANGED <<disposed, loginStateTmp, obj, nCalls, pc, chain,
                   startLoginTokenPollInterval, conf, waitLoginPollingInterval,
                   tokenRefreshInterval, store, logout, lim, firstWrite, logoutMark,
                   callsAtDispose>>

\* ----------------------------------------------------------- logout, dispose
\* logout() up to the revoke request of onLogout
LogoutBegin ==
    /\ logout = "idle"
    /\ lim.logouts > 0
    /\ lim' = [lim EXCEPT !.logouts = lim.logouts - 1]
    /\ chain' = stopStartLoginTokenPoll(chain, startLoginTokenPollInterval)
    /\ startLoginTokenPollInterval' = 0
    /\ conf' = stopWaitLoginPolling(conf, waitLoginPollingInterval)
    /\ waitLoginPollingInterval' = 0
    /\ tokenRefreshInterval' = stopRefreshToken(tokenRefreshInterval)
    /\ logout' = "revoking"
    /\ last' = Step("logoutBegin", 0, NoReply, {})
    /\ UNCHANGED utilVars
    /\ UNCHANGED <<disposed, loginStateTmp, obj, nCalls, pc, refreshOps, store,
                   firstWrite, logoutMark, callsAtDispose>>

\* the revoke request settles and logout() runs to its end
LogoutRevoked(outcome) ==
    /\ logout = "revoking"
    /\ IF logoutUserThrows(outcome)
       THEN \* retryWrapper (maxAttempt 1) rethrows and logout() rejects
            /\ logout' = "threw"
            /\ last' = Step("logoutThrew", 0, [NoReply EXCEPT !.status = outcome], {})
            /\ UNCHANGED <<store, logoutMark>>
       ELSE /\ store' = Cleared
            /\ logout' = "idle"
            /\ logoutMark' = nCalls + 1
            /\ last' = Step("logoutDone", 0, [NoReply EXCEPT !.status = outcome],
                            {"logout"})
    /\ UNCHANGED utilVars
    /\ UNCHANGED <<disposed, loginStateTmp, obj, nCalls, pc, chain,
                   startLoginTokenPollInterval, conf, waitLoginPollingInterval,
                   tokenRefreshInterval, refreshOps, lim, firstWrite, callsAtDispose>>

\* dispose()
Dispose ==
    /\ disposed' = TRUE
    /\ chain' = stopStartLoginTokenPoll(chain, startLoginTokenPollInterval)
    /\ startLoginTokenPollInterval' = 0
    /\ conf' = stopWaitLoginPolling(conf, waitLoginPollingInterval)
    /\ waitLoginPollingInterval' = 0
    /\ tokenRefreshInterval' = stopRefreshToken(tokenRefreshInterval)
    /\ callsAtDispose' = IF callsAtDispose = -1 THEN nCalls ELSE callsAtDispose
    /\ last' = Step("dispose", 0, NoReply, {})
    /\ UNCHANGED utilVars
    /\ UNCHANGED <<loginStateTmp, obj, nCalls, pc, refreshOps, store, logout, lim,
                   firstWrite, logoutMark>>

\* ------------------------------------------------------------ specification
Next ==
    \/ StartLogin
    \/ \E c \in Calls, outcome \in OpenOutcomes : StartLoginOpened(c, outcome)
    \/ \E c \in Calls : \E reply \in TokenReplies(chain[c].state) : TokenPollReply(c, reply)
    \/ \E c \in Calls : TokenPollFire(c)
    \/ \E c \in Calls : \E reply \in StatusReplies : ConfReply(c, reply)
    \/ \E c \in Calls : ConfBackoffDone(c)
    \/ \E c \in Calls : ConfFire(c)
    \/ RefreshFire
    \/ \E auto \in BOOLEAN : ManualRefresh(auto)
    \/ \E i \in RefreshSlots :
          \E reply \in RefreshReplies(refreshOps[i].refreshToken, refreshOps[i].state) : RefreshReply(i, reply)
    \/ \E i \in RefreshSlots : RefreshBackoffDone(i)
    \/ LogoutBegin
    \/ \E outcome \in RevokeOutcomes : LogoutRevoked(outcome)
    \/ Dispose

Spec == Init /\ [][Next]_vars

\* One login followed to the end of both polls: the responses are not rationed
\* (each poll stops at its own ceiling), and dispose() may come at any time.
PollRequests == 2 * maxAttempt + 2
InitPoll ==
    /\ disposed = FALSE
    /\ loginStateTmp = 0
    /\ obj = [c \in Calls |-> NoTokens]
    /\ nCalls = 0
    /\ pc = [c \in Calls |-> "idle"]
    /\ chain = [c \in Calls |-> [st |-> "none", attempt |-> 0, state |-> NoState]]
    /\ startLoginTokenPollInterval = 0
    /\ conf = [c \in Calls |-> [st |-> "none", attempt |-> 0, loginState |-> 0]]
    /\ waitLoginPollingInterval = 0
    /\ tokenRefreshInterval = NoTimer
    /\ refreshOps = [i \in RefreshSlots |-> NoOp]
    /\ store \in {NoTokens, PriorTokens}
    /\ logout = "idle"
    /\ lim = [logins |-> 1, logouts |-> 0, manual |-> 0, ops |-> MaxRefreshOps,
              requests |-> PollRequests]
    /\ firstWrite = [s \in Calls |-> 0]
    /\ logoutMark = 0
    /\ callsAtDispose = -1
    /\ last = Step("init", 0, NoReply, {})
    /\ UtilIdle

NextPoll ==
    \/ StartLogin
    \/ \E c \in Calls, outcome \in OpenOutcomes : StartLoginOpened(c, outcome)
    \/ \E c \in Calls : \E reply \in TokenReplies(chain[c].state) : TokenPollReply(c, reply)
    \/ \E c \in Calls : TokenPollFire(c)
    \/ \E c \in Calls : \E reply \in StatusReplies : ConfReply(c, reply)
    \/ \E c \in Calls : ConfBackoffDone(c)
    \/ \E c \in Calls : ConfFire(c)
    \/ Dispose

SpecPoll == InitPoll /\ [][NextPoll]_vars

\* A burst of startLogin() calls, one more than Spec makes, with few responses.
InitRapid ==
    /\ disposed = FALSE
    /\ loginStateTmp = 0
    /\ obj = [c \in Calls |-> NoTokens]
    /\ nCalls = 0
    /\ pc = [c \in Calls |-> "idle"]
    /\ chain = [c \in Calls |-> [st |-> "none", attempt |-> 0, state |-> NoState]]
    /\ startLoginTokenPollInterval = 0
    /\ conf = [c \in Calls |-> [st |-> "none", attempt |-> 0, loginState |-> 0]]
    /\ waitLoginPollingInterval = 0
    /\ tokenRefreshInterval = NoTimer
    /\ refreshOps = [i \in RefreshSlots |-> NoOp]
    /\ store \in {NoTokens, PriorTokens}
    /\ logout = "idle"
    /\ lim = [logins |-> MaxLogins + 1, logouts |-> 0, manual |-> 0, ops |-> MaxRefreshOps,
              requests |-> RapidRequests]
    /\ firstWrite = [s \in Calls |-> 0]
    /\ logoutMark = 0
    /\ callsAtDispose = -1
    /\ last = Step("init", 0, NoReply, {})
    /\ UtilIdle

SpecRapid == InitRapid /\ [][NextPoll]_vars

\* One login whose refresh timer fires while the refreshToken() of an earlier
\* firing is still waiting: one more call in progress than Spec follows.
InitOverlap ==
    /\ disposed = FALSE
    /\ loginStateTmp = 0
    /\ obj = [c \in Calls |-> NoTokens]
    /\ nCalls = 0
    /\ pc = [c \in Calls |-> "idle"]
    /\ chain = [c \in Calls |-> [st |-> "none", attempt |-> 0, state |-> NoState]]
    /\ startLoginTokenPollInterval = 0
    /\ conf = [c \in Calls |-> [st |-> "none", attempt |-> 0, loginState |-> 0]]
    /\ waitLoginPollingInterval = 0
    /\ tokenRefreshInterval = NoTimer
    /\ refreshOps = [i \in RefreshSlots |-> NoOp]
    /\ store = NoTokens
    /\ logout = "idle"
    /\ lim = [logins |-> 1, logouts |-> 0, manual |-> 0, ops |-> MaxRefreshOps + 1,
              requests |-> MaxRequests]
    /\ firstWrite = [s \in Calls |-> 0]
    /\ logoutMark = 0
    /\ callsAtDispose = -1
    /\ last = Step("init", 0, NoReply, {})
    /\ UtilIdle

\* One login on a controller whose provider may have no current profile
\* (state.currentApiConfigName empty).
InitProfile ==
    /\ disposed = FALSE
    /\ loginStateTmp = 0
    /\ obj = [c \in Calls |-> NoTokens]
    /\ nCalls = 0
    /\ pc = [c \in Calls |-> "idle"]
    /\ chain = [c \in Calls |-> [st |-> "none", attempt |-> 0, state |-> NoState]]
    /\ startLoginTokenPollInterval = 0
    /\ conf = [c \in Calls |-> [st |-> "none", attempt |-> 0, loginState |-> 0]]
    /\ waitLoginPollingInterval = 0
    /\ tokenRefreshInterval = NoTimer
    /\ refreshOps = [i \in RefreshSlots |-> NoOp]
    /\ store \in {NoTokens, PriorTokens}
    /\ logout = "idle"
    /\ lim = [logins |-> 1, logouts |-> 0, manual |-> 0, ops |-> MaxRefreshOps,
              requests |-> MaxRequests]
    /\ firstWrite = [s \in Calls |-> 0]
    /\ logoutMark = 0
    /\ callsAtDispose = -1
    /\ last = Step("init", 0, NoReply, {})
    /\ timing = NoTiming
    /\ retry = NoRetry
    /\ startup = NoStartup
    /\ storage \in {NoWrites, [NoWrites EXCEPT !.profile = FALSE]}

NextOverlap ==
    \/ StartLogin
    \/ \E c \in Calls, outcome \in OpenOutcomes : StartLoginOpened(c, outcome)
    \/ \E c \in Calls : \E reply \in TokenReplies(chain[c].state) : TokenPollReply(c, reply)
    \/ \E c \in Calls : TokenPollFire(c)
    \/ \E c \in Calls : \E reply \in StatusReplies : ConfReply(c, reply)
    \/ \E c \in Calls : ConfBackoffDone(c)
    \/ \E c \in Calls : ConfFire(c)
    \/ RefreshFire
    \/ \E i \in RefreshSlots :
          \E reply \in RefreshReplies(refreshOps[i].refreshToken, refreshOps[i].state) : RefreshReply(i, reply)
    \/ \E i \in RefreshSlots : RefreshBackoffDone(i)

SpecOverlap == InitOverlap /\ [][NextOverlap]_vars
SpecProfile == InitProfile /\ [][NextOverlap]_vars


\* ------------------------------------------- the refresh interval on its own
\* Milliseconds are kept as <<q, r>>, meaning q * 1000 + r with 0 <= r < 1000:
\* JavaScript numbers are exact far beyond 2^31, and so is this arithmetic.
Ms(q, r) == <<q, r>>
MsLess(a, b) == a[1] < b[1] \/ (a[1] = b[1] /\ a[2] < b[2])
MsMin(a, b) == IF MsLess(a, b) THEN a ELSE b
MsAdd(a, b) ==
    IF a[2] + b[2] < 1000 THEN <<a[1] + b[1], a[2] + b[2]>>
    ELSE <<a[1] + b[1] + 1, a[2] + b[2] - 1000>>
MsSub(a, b) ==
    IF a[2] >= b[2] THEN <<a[1] - b[1], a[2] - b[2]>>
    ELSE <<a[1] - b[1] - 1, a[2] + 1000 - b[2]>>
MsZero == Ms(0, 0)
INT32_MAX == Ms(2147483, 647)       \* 2147483647
DayMs == Ms(24 * 60 * 60, 0)        \* 24 * 60 * 60 * 1000
MinDelay == Ms(3, 0)                \* 3000
ExpiryLead == 1800                  \* seconds before exp at which to refresh

\* what parseJwt reads from a token: nothing to parse (an empty or undefined
\* string), or a payload with or without a numeric exp claim (epoch seconds)
AbsentToken == [present |-> FALSE, hasExp |-> FALSE, exp |-> 0]
JwtNoExp == [present |-> TRUE, hasExp |-> FALSE, exp |-> 0]
Jwt(exp) == [present |-> TRUE, hasExp |-> TRUE, exp |-> exp]

\* AuthConfig.getTokenRefreshInterval at Date.now() = now.  Without an exp
\* claim the arithmetic gives NaN, and NaN > 0 is false.
getTokenRefreshIntervalFloorsLate(refreshToken, now) ==
    IF ~refreshToken.present THEN DayMs
    ELSE IF ~refreshToken.hasExp THEN MinDelay
    ELSE LET refreshInterval ==
                 MsMin(MsSub(Ms(refreshToken.exp - ExpiryLead, 0), now), INT32_MAX)
         IN  IF ~MsLess(refreshInterval, MsZero) THEN refreshInterval ELSE MinDelay
getTokenRefreshInterval(refreshToken, now) ==
    IF ~refreshToken.present THEN DayMs
    ELSE IF ~refreshToken.hasExp THEN MinDelay
    ELSE LET refreshInterval ==
                 MsMin(MsSub(Ms(refreshToken.exp - ExpiryLead, 0), now), INT32_MAX)
         IN  IF MsLess(MsZero, refreshInterval) THEN refreshInterval ELSE MinDelay

\* the expiry claims and the instants tried: around the floor, and around the cap
Exps == {0, 1800, 1801, 1802, 5400, 5401, 2149284, 2149285, 2149286}
Nows == {Ms(0, 0), Ms(0, 999), Ms(1, 0), Ms(1, 1), Ms(1, 352), Ms(1, 353), Ms(1, 354),
         Ms(3600, 0)}
TimedTokens == {AbsentToken, JwtNoExp} \cup {Jwt(e) : e \in Exps}
\* a saved pair has both tokens (lines 137, 268-274)
TimedPairs == [access_token : {Jwt(e) : e \in Exps},
               refresh_token : {JwtNoExp} \cup {Jwt(e) : e \in Exps}]

\* a call of getTokenRefreshInterval(refreshToken)
GetTokenRefreshInterval(refreshToken, now) ==
    /\ timing' = [fn |-> "getTokenRefreshInterval", token |-> refreshToken, now |-> now,
                  interval |-> getTokenRefreshInterval(refreshToken, now)]
    /\ UNCHANGED <<ctlVars, retry, startup, storage>>

\* the interval with which startTokenRefresh(pair.refresh_token, machineId,
\* state) arms setInterval (lines 242-256), for the pair just saved
\* (lines 175-186 and 276-280)
IntervalArmed(pair, now) == getTokenRefreshInterval(pair.refresh_token, now)
ArmForPair(pair, now) ==
    /\ timing' = [fn |-> "startTokenRefresh", pair |-> pair, now |-> now,
                  interval |-> IntervalArmed(pair, now)]
    /\ UNCHANGED <<ctlVars, retry, startup, storage>>

InitIdle ==
    /\ disposed = FALSE
    /\ loginStateTmp = 0
    /\ obj = [c \in Calls |-> NoTokens]
    /\ nCalls = 0
    /\ pc = [c \in Calls |-> "idle"]
    /\ chain = [c \in Calls |-> [st |-> "none", attempt |-> 0, state |-> NoState]]
    /\ startLoginTokenPollInterval = 0
    /\ conf = [c \in Calls |-> [st |-> "none", attempt |-> 0, loginState |-> 0]]
    /\ waitLoginPollingInterval = 0
    /\ tokenRefreshInterval = NoTimer
    /\ refreshOps = [i \in RefreshSlots |-> NoOp]
    /\ store = NoTokens
    /\ logout = "idle"
    /\ lim = [logins |-> 0, logouts |-> 0, manual |-> 0, ops |-> MaxRefreshOps,
              requests |-> 0]
    /\ firstWrite = [s \in Calls |-> 0]
    /\ logoutMark = 0
    /\ callsAtDispose = -1
    /\ last = Step("init", 0, NoReply, {})
    /\ UtilIdle

NextInterval ==
    \/ \E t \in TimedTokens, now \in Nows : GetTokenRefreshInterval(t, now)
    \/ \E pair \in TimedPairs, now \in Nows : ArmForPair(pair, now)

SpecInterval == InitIdle /\ [][NextInterval]_vars

\* ------------------------------------------------- retryWrapper on its own
\* what fn() may do: resolve with a value, or reject with an Error or with a
\* value that is not an Error
Resolved(v) == [ok |-> TRUE, value |-> v, error |-> NoError]
Rejected(kind, message) ==
    [ok |-> FALSE, value |-> "none", error |-> [kind |-> kind, message |-> message]]
FnOutcomes ==
    {Resolved("v1"), Resolved("v2"),
     Rejected("Error", "e1"), Rejected("Error", "e2"), Rejected("string", "e3")}

\* the maxAttempt arguments tried; without the argument the default applies
RetryArgs ==
    {[given |-> FALSE, maxAttempt |-> DefaultMaxAttempt]}
    \cup {[given |-> TRUE, maxAttempt |-> n] : n \in -1..MaxRetryArg}

RECURSIVE Pow2(_)
Pow2(n) == IF n = 0 THEN 1 ELSE 2 * Pow2(n - 1)
\* the default interval: (attempt) => 1000 * Math.pow(2, attempt)
DefaultInterval(attempt) == 1000 * Pow2(attempt)

\* line 32: error instanceof Error ? error : new Error(String(error))
AsError(error) ==
    IF error.kind = "Error" THEN error
    ELSE [kind |-> "Error", message |-> error.message]
\* line 37: throw lastError || new Error(`Operation failed after ${attempt} attempts`)
PlaceholderError == [kind |-> "Error", message |-> "Operation failed after attempts"]
RaisedErrorPlaceholder(lastError) == PlaceholderError
RaisedError(lastError) == IF lastError = NoError THEN PlaceholderError ELSE lastError

\* retryWrapper(rid, fn, interval, maxAttempt) up to its first await: the loop
\* runs at least once, since _maxAttempt >= 1
RetryWrapperCall(arg) ==
    /\ retry.st = "none"
    /\ retry' = [NoRetry EXCEPT !.st = "calling", !.given = arg.given,
                                !.maxAttempt = arg.maxAttempt, !.calls = 1]
    /\ UNCHANGED <<ctlVars, timing, startup, storage>>

\* fn() settles: return its value, or keep the error and wait interval(attempt)
RetryWrapperSettled(outcome) ==
    /\ retry.st = "calling"
    /\ IF outcome.ok
       THEN retry' = [retry EXCEPT !.st = "returned", !.outcome = outcome,
                                   !.result = outcome.value]
       ELSE retry' = [retry EXCEPT !.st = "waiting", !.outcome = outcome,
                                   !.lastError = AsError(outcome.error),
                                   !.waits = retry.waits + 1,
                                   !.delay = DefaultInterval(retry.attempt)]
    /\ UNCHANGED <<ctlVars, timing, startup, storage>>

\* the delay is over: attempt++, then the next iteration or the throw of line 37
RetryWrapperDelayOver ==
    /\ retry.st = "waiting"
    /\ IF RetryAgain(retry.attempt, retry.maxAttempt)
       THEN retry' = [retry EXCEPT !.st = "calling", !.attempt = retry.attempt + 1,
                                   !.calls = retry.calls + 1]
       ELSE retry' = [retry EXCEPT !.st = "thrown", !.attempt = retry.attempt + 1,
                                   !.raised = RaisedError(retry.lastError)]
    /\ UNCHANGED <<ctlVars, timing, startup, storage>>

NextRetry ==
    \/ \E arg \in RetryArgs : RetryWrapperCall(arg)
    \/ \E outcome \in FnOutcomes : RetryWrapperSettled(outcome)
    \/ RetryWrapperDelayOver

SpecRetry == InitIdle /\ [][NextRetry]_vars

\* ------------------------------------------------ the check at activation
\* what the settings may hold when the plugin starts
StartupStores ==
    {NoTokens, PriorTokens,
     [PriorTokens EXCEPT !.access_token = Empty],
     [PriorTokens EXCEPT !.refresh_token = Empty],
     [PriorTokens EXCEPT !.state = NoState],
     [PriorTokens EXCEPT !.refresh_token = BadRefreshToken(PriorSession, 0)]}

\* answers to the status request for session q: any status, or none, for this
\* session, another one or none
StartupReplies(q) ==
    {ErrorReply}
    \cup {Reply(success, Empty, Empty, s, st) :
            success \in BOOLEAN, s \in {NoState, q, 1},
            st \in {LOGGED_IN, LOGGING_IN, "none"}}

\* AuthStorage.getTokens: null without a provider
getTokens == IF storage.provider THEN store ELSE NoTokens

\* line 319: result.data?.status !== AuthStatus.LOGGED_IN gives false
StartupLoggedInByTokens(reply) == TRUE
StartupLoggedIn(reply) == reply.status = LOGGED_IN

\* checkLoginStatusOnStartup() up to its status request
CheckLoginStatusOnStartup ==
    /\ startup.st = "none"
    /\ IF getTokens.access_token = Empty \/ getTokens.refresh_token = Empty
       THEN startup' = [startup EXCEPT !.st = "returned", !.result = FALSE]
       ELSE startup' = [startup EXCEPT !.st = "inflight", !.calls = 1]
    /\ UNCHANGED <<ctlVars, timing, retry, storage>>

\* the status request settles: retryWrapper waits 1000 ms after a failure, and
\* a response decides the result
StartupReply(reply) ==
    /\ startup.st = "inflight"
    /\ reply \in StartupReplies(getTokens.state)
    /\ IF ~reply.ok
       THEN startup' = [startup EXCEPT !.st = "backoff", !.reply = reply]
       ELSE startup' = [startup EXCEPT !.st = "returned", !.reply = reply,
                                       !.result = StartupLoggedIn(reply)]
    /\ UNCHANGED <<ctlVars, timing, retry, storage>>

\* the delay is over: the second attempt, or the error is thrown into the
\* catch of line 326, which returns false
StartupBackoffDone ==
    /\ startup.st = "backoff"
    /\ IF RetryAgain(startup.attempt, StartupMaxAttempt)
       THEN startup' = [startup EXCEPT !.st = "inflight",
                                       !.attempt = startup.attempt + 1,
                                       !.calls = startup.calls + 1]
       ELSE startup' = [startup EXCEPT !.st = "returned", !.result = FALSE]
    /\ UNCHANGED <<ctlVars, timing, retry, storage>>

InitStartup ==
    /\ disposed = FALSE
    /\ loginStateTmp = 0
    /\ obj = [c \in Calls |-> NoTokens]
    /\ nCalls = 0
    /\ pc = [c \in Calls |-> "idle"]
    /\ chain = [c \in Calls |-> [st |-> "none", attempt |-> 0, state |-> NoState]]
    /\ startLoginTokenPollInterval = 0
    /\ conf = [c \in Calls |-> [st |-> "none", attempt |-> 0, loginState |-> 0]]
    /\ waitLoginPollingInterval = 0
    /\ tokenRefreshInterval = NoTimer
    /\ refreshOps = [i \in RefreshSlots |-> NoOp]
    /\ store \in StartupStores
    /\ logout = "idle"
    /\ lim = [logins |-> 0, logouts |-> 0, manual |-> 0, ops |-> MaxRefreshOps,
              requests |-> 0]
    /\ firstWrite = [s \in Calls |-> 0]
    /\ logoutMark = 0
    /\ callsAtDispose = -1
    /\ last = Step("init", 0, NoReply, {})
    /\ timing = NoTiming
    /\ retry = NoRetry
    /\ startup = NoStartup
    /\ storage \in {NoWrites, [NoWrites EXCEPT !.provider = FALSE]}

NextStartup ==
    \/ CheckLoginStatusOnStartup
    \/ \E reply \in StartupReplies(getTokens.state) : StartupReply(reply)
    \/ StartupBackoffDone

SpecStartup == InitStartup /\ [][NextStartup]_vars

\* ---------------------------------------------------- AuthStorage on its own
\* the pairs handed to saveTokens
SavedPairs ==
    {PriorTokens,
     [access_token |-> AccessToken(1, 0), refresh_token |-> RefreshTokenOf(1, 0),
      state |-> 1],
     [access_token |-> AccessToken(1, 1), refresh_token |-> RefreshTokenOf(1, 1),
      state |-> 1],
     [access_token |-> AccessToken(1, 0), refresh_token |-> BadRefreshToken(1, 0),
      state |-> 1]}

\* saveTokens and clearAllLoginState write with three setValue calls and one
\* upsertProviderProfile, saveLoginState with one of each
WritesPerSave == 4
WritesPerState == 2
\* AuthStorage.saveLoginState: the store's three values after the call
saveLoginState(loginState) == [store EXCEPT !.state = loginState.state]

\* a call of an AuthStorage method that writes
StorageCall(op, argument, written, writes) ==
    /\ storage.saves < MaxSaves
    /\ IF SavesNothing
       THEN /\ storage' = [storage EXCEPT !.saves = storage.saves + 1, !.op = op,
                                          !.argument = argument, !.before = store,
                                          !.fresh = FALSE]
            /\ UNCHANGED store
       ELSE /\ storage' = [storage EXCEPT !.saves = storage.saves + 1, !.op = op,
                                          !.argument = argument, !.before = store,
                                          !.fresh = FALSE,
                                          !.writes = storage.writes + writes]
            /\ store' = written
    /\ UNCHANGED <<disposed, loginStateTmp, obj, nCalls, pc, chain,
                   startLoginTokenPollInterval, conf, waitLoginPollingInterval,
                   tokenRefreshInterval, refreshOps, logout, lim, firstWrite,
                   logoutMark, callsAtDispose, last, timing, retry, startup>>

\* AuthStorage.saveTokens(tokens)
SaveTokensCall(tokens) ==
    StorageCall("saveTokens", tokens, saveTokens(tokens), WritesPerSave)

\* AuthStorage.saveLoginState(loginState)
SaveLoginStateCall(loginState) ==
    StorageCall("saveLoginState", loginState, saveLoginState(loginState), WritesPerState)

\* AuthStorage.clearAllLoginState()
ClearAllLoginStateCall ==
    StorageCall("clearAllLoginState", NoTokens, clearAllLoginState, WritesPerSave)

\* AuthStorage.getTokens() called next after the last writing call; read is the
\* value it returns, null being the empty triple
GetTokensCall ==
    /\ storage.op # "none"
    /\ storage' = [storage EXCEPT !.fresh = TRUE, !.read = getTokens]
    /\ UNCHANGED <<ctlVars, timing, retry, startup>>

InitStorage ==
    /\ disposed = FALSE
    /\ loginStateTmp = 0
    /\ obj = [c \in Calls |-> NoTokens]
    /\ nCalls = 0
    /\ pc = [c \in Calls |-> "idle"]
    /\ chain = [c \in Calls |-> [st |-> "none", attempt |-> 0, state |-> NoState]]
    /\ startLoginTokenPollInterval = 0
    /\ conf = [c \in Calls |-> [st |-> "none", attempt |-> 0, loginState |-> 0]]
    /\ waitLoginPollingInterval = 0
    /\ tokenRefreshInterval = NoTimer
    /\ refreshOps = [i \in RefreshSlots |-> NoOp]
    /\ store \in {NoTokens, PriorTokens}
    /\ logout = "idle"
    /\ lim = [logins |-> 0, logouts |-> 0, manual |-> 0, ops |-> MaxRefreshOps,
              requests |-> 0]
    /\ firstWrite = [s \in Calls |-> 0]
    /\ logoutMark = 0
    /\ callsAtDispose = -1
    /\ last = Step("init", 0, NoReply, {})
    /\ timing = NoTiming
    /\ retry = NoRetry
    /\ startup = NoStartup
    /\ storage \in {NoWrites, [NoWrites EXCEPT !.provider = FALSE],
                    [NoWrites EXCEPT !.profile = FALSE]}

NextStorage ==
    \/ \E tokens \in SavedPairs : SaveTokensCall(tokens)
    \/ \E loginState \in SavedPairs : SaveLoginStateCall(loginState)
    \/ ClearAllLoginStateCall
    \/ GetTokensCall

SpecStorage == InitStorage /\ [][NextStorage]_vars

\* --------------------------------------------------- historical controller
\* src/unnamed/part_001: an earlier ZgsmAuthService.  Its startLogin() asks for
\* the tokens through retryWrapper and takes the first answer that arrives; its
\* pollLoginState re-arms its timer after every unsuccessful poll.
HistoricTokenMaxAttempt == 100     \* retryWrapper argument in startLogin
HistoricRequests == maxAttempt + 4

\* Object.assign(target, data): the fields data holds replace the target's
ObjectAssign(target, data) ==
    [access_token |-> IF data.access_token # Empty THEN data.access_token
                      ELSE target.access_token,
     refresh_token |-> IF data.refresh_token # Empty THEN data.refresh_token
                       ELSE target.refresh_token,
     state |-> IF data.state # NoState THEN data.state ELSE target.state]

\* startTokenRefresh of lines 201-223: the old interval is cleared, the new one
\* armed unless computing its period throws
HistoricStartTokenRefresh(refreshToken, state) ==
    IF getTokenRefreshIntervalThrows(refreshToken)
    THEN stopRefreshToken(tokenRefreshInterval)
    ELSE setIntervalOver(stopRefreshToken(tokenRefreshInterval), refreshToken, state)

\* startLogin() up to its first await
HistoricStartLogin ==
    /\ lim.logins > 0
    /\ lim' = [lim EXCEPT !.logins = lim.logins - 1]
    /\ nCalls' = nCalls + 1
    /\ conf' = stopWaitLoginPolling(conf, waitLoginPollingInterval)
    /\ waitLoginPollingInterval' = 0
    /\ loginStateTmp' = nCalls + 1
    /\ obj' = [obj EXCEPT ![nCalls + 1] = [NoTokens EXCEPT !.state = nCalls + 1]]
    /\ pc' = [pc EXCEPT ![nCalls + 1] = "opening"]
    /\ last' = Step("startLogin", nCalls + 1, NoReply, {})
    /\ UNCHANGED utilVars
    /\ UNCHANGED <<disposed, chain, startLoginTokenPollInterval, tokenRefreshInterval,
                   refreshOps, store, logout, firstWrite, logoutMark, callsAtDispose>>

\* the awaits of lines 112-115 end; retryWrapper makes the first token request
HistoricOpened(c, outcome) ==
    /\ pc[c] = "opening"
    /\ IF outcome = "threw"
       THEN /\ pc' = [pc EXCEPT ![c] = "failed_open"]
            /\ last' = Step("openFailed", c, [NoReply EXCEPT !.status = outcome],
                            {"loginFailed"})
            /\ UNCHANGED chain
       ELSE /\ pc' = [pc EXCEPT ![c] = "polling"]
            /\ chain' = [chain EXCEPT ![c] = [st |-> "inflight", attempt |-> 0,
                                              state |-> ActiveState]]
            /\ last' = Step("tokenRequested", c, [NoReply EXCEPT !.status = outcome],
                            {})
    /\ UNCHANGED utilVars
    /\ UNCHANGED <<disposed, loginStateTmp, obj, nCalls, startLoginTokenPollInterval,
                   conf, waitLoginPollingInterval, tokenRefreshInterval, refreshOps,
                   store, logout, lim, firstWrite, logoutMark, callsAtDispose>>

\* the token request of startLogin() is answered (lines 119-128)
HistoricTokenReply(c, reply) ==
    /\ chain[c].st = "inflight"
    /\ lim.requests > 0
    /\ reply \in TokenReplies(chain[c].state)
    /\ lim' = [lim EXCEPT !.requests = lim.requests - 1]
    /\ IF ~reply.ok
       THEN \* retryWrapper catches and waits 3000 ms
            /\ chain' = [chain EXCEPT ![c].st = "backoff"]
            /\ last' = Step("tokenError", c, reply, {})
            /\ UNCHANGED <<obj, conf, pc>>
       ELSE \* whatever the answer holds: Object.assign on the field, then
            \* startWaitLoginPolling up to its first status request
            /\ chain' = [chain EXCEPT ![c].st = "resolved"]
            /\ obj' = [obj EXCEPT ![loginStateTmp] = ObjectAssign(@, reply)]
            /\ conf' = [conf EXCEPT ![c] = [st |-> "inflight", attempt |-> 0,
                                            loginState |-> loginStateTmp]]
            /\ pc' = [pc EXCEPT ![c] = "returned"]
            /\ last' = Step("tokenAccepted", c, reply, {})
    /\ UNCHANGED utilVars
    /\ UNCHANGED <<disposed, loginStateTmp, nCalls, startLoginTokenPollInterval,
                   waitLoginPollingInterval, tokenRefreshInterval, refreshOps, store,
                   logout, firstWrite, logoutMark, callsAtDispose>>

\* retryWrapper's delay after a failed token request is over
HistoricTokenBackoffDone(c) ==
    /\ chain[c].st = "backoff"
    /\ IF RetryAgain(chain[c].attempt, HistoricTokenMaxAttempt)
       THEN /\ chain' = [chain EXCEPT ![c] = [@ EXCEPT !.st = "inflight",
                                                       !.attempt = chain[c].attempt + 1]]
            /\ last' = Step("tokenRetry", c, NoReply, {})
            /\ UNCHANGED pc
       ELSE /\ chain' = [chain EXCEPT ![c].st = "failed"]
            /\ pc' = [pc EXCEPT ![c] = "failed_poll"]
            /\ last' = Step("tokenThrown", c, ErrorReply, {"loginFailed"})
    /\ UNCHANGED utilVars
    /\ UNCHANGED <<disposed, loginStateTmp, obj, nCalls, startLoginTokenPollInterval,
                   conf, waitLoginPollingInterval, tokenRefreshInterval, refreshOps,
                   store, logout, lim, firstWrite, logoutMark, callsAtDispose>>

\* lines 176-181 of pollLoginState: count the attempt, show the timeout message
\* past the ceiling (there is no return after it), arm the timer
HistoricAfterPoll(cf, h, c, op, reply) ==
    /\ last' = Step(op, c, reply,
                    IF PollExhausted(cf[c].attempt + 1) THEN {"loginTimeout"} ELSE {})
    /\ conf' = [cf EXCEPT ![c] = [@ EXCEPT !.st = "timer",
                                           !.attempt = cf[c].attempt + 1]]
    /\ waitLoginPollingInterval' = c

\* the answer to a status request of pollLoginState (lines 141-182)
HistoricPollReply(c, reply) ==
    /\ conf[c].st = "inflight"
    /\ lim.requests > 0
    /\ reply \in StatusReplies
    /\ lim' = [lim EXCEPT !.requests = lim.requests - 1]
    /\ IF ~reply.ok
       THEN /\ conf' = [conf EXCEPT ![c].st = "backoff"]
            /\ last' = Step("confError", c, reply, {})
            /\ UNCHANGED <<waitLoginPollingInterval, tokenRefreshInterval, store>>
       ELSE IF LoginConfirmed(reply, ActiveState)
       THEN /\ store' = Saved(obj[conf[c].loginState])
            /\ tokenRefreshInterval' =
                  HistoricStartTokenRefresh(obj[conf[c].loginState].refresh_token,
                                            obj[conf[c].loginState].state)
            /\ IF getTokenRefreshIntervalThrows(obj[conf[c].loginState].refresh_token)
               THEN \* thrown at line 164 into the catch of line 172
                    HistoricAfterPoll(stopWaitLoginPolling(conf, waitLoginPollingInterval),
                                      0, c, "confirmedThrew", reply)
               ELSE /\ conf' = [stopWaitLoginPolling(conf, waitLoginPollingInterval)
                                  EXCEPT ![c].st = "done"]
                    /\ waitLoginPollingInterval' = 0
                    /\ last' = Step("confirmed", c, reply, {"loginSuccess"})
       ELSE /\ HistoricAfterPoll(conf, waitLoginPollingInterval, c, "confPending", reply)
            /\ UNCHANGED <<tokenRefreshInterval, store>>
    /\ UNCHANGED utilVars
    /\ UNCHANGED <<disposed, loginStateTmp, obj, nCalls, pc, chain,
                   startLoginTokenPollInterval, refreshOps, logout, firstWrite,
                   logoutMark, callsAtDispose>>

\* retryWrapper's delay after the failed status request is over: with
\* maxAttempt 0 the error is thrown into pollLoginState's catch
HistoricPollBackoffDone(c) ==
    /\ conf[c].st = "backoff"
    /\ IF RetryAgain(0, PollLoginStateMaxAttempt)
       THEN /\ conf' = [conf EXCEPT ![c].st = "inflight"]
            /\ last' = Step("confRetry", c, NoReply, {})
            /\ UNCHANGED waitLoginPollingInterval
       ELSE HistoricAfterPoll(conf, waitLoginPollingInterval, c, "confThrown", ErrorReply)
    /\ UNCHANGED utilVars
    /\ UNCHANGED <<disposed, loginStateTmp, obj, nCalls, pc, chain,
                   startLoginTokenPollInterval, tokenRefreshInterval, refreshOps, store,
                   logout, lim, firstWrite, logoutMark, callsAtDispose>>

\* the polling-interval timer of pollLoginState fires
HistoricPollFire(c) ==
    /\ conf[c].st = "timer"
    /\ conf' = [conf EXCEPT ![c].st = "inflight"]
    /\ last' = Step("confFire", c, NoReply, {})
    /\ UNCHANGED utilVars
    /\ UNCHANGED <<disposed, loginStateTmp, obj, nCalls, pc, chain,
                   startLoginTokenPollInterval, waitLoginPollingInterval,
                   tokenRefreshInterval, refreshOps, store, logout, lim, firstWrite,
                   logoutMark, callsAtDispose>>

InitHistoric ==
    /\ disposed = FALSE
    /\ loginStateTmp = 0
    /\ obj = [c \in Calls |-> NoTokens]
    /\ nCalls = 0
    /\ pc = [c \in Calls |-> "idle"]
    /\ chain = [c \in Calls |-> [st |-> "none", attempt |-> 0, state |-> NoState]]
    /\ startLoginTokenPollInterval = 0
    /\ conf = [c \in Calls |-> [st |-> "none", attempt |-> 0, loginState |-> 0]]
    /\ waitLoginPollingInterval = 0
    /\ tokenRefreshInterval = NoTimer
    /\ refreshOps = [i \in RefreshSlots |-> NoOp]
    /\ store \in {NoTokens, PriorTokens}
    /\ logout = "idle"
    /\ lim = [logins |-> 1, logouts |-> 0, manual |-> 0, ops |-> MaxRefreshOps,
              requests |-> HistoricRequests]
    /\ firstWrite = [s \in Calls |-> 0]
    /\ logoutMark = 0
    /\ callsAtDispose = -1
    /\ last = Step("init", 0, NoReply, {})
    /\ UtilIdle

NextHistoric ==
    \/ HistoricStartLogin
    \/ \E c \in Calls, outcome \in OpenOutcomes : HistoricOpened(c, outcome)
    \/ \E c \in Calls : \E reply \in TokenReplies(chain[c].state) :
          HistoricTokenReply(c, reply)
    \/ \E c \in Calls : HistoricTokenBackoffDone(c)
    \/ \E c \in Calls : \E reply \in StatusReplies : HistoricPollReply(c, reply)
    \/ \E c \in Calls : HistoricPollBackoffDone(c)
    \/ \E c \in Calls : HistoricPollFire(c)

SpecHistoric == InitHistoric /\ [][NextHistoric]_vars

\* ------------------------------------------------------------------ claims
\* the steps that call saveTokens
WriteOps ==
    {"confirmed", "confirmedThrew", "confirmedThrewTimeout", "refreshed", "refreshedThrew"}
PollTimers ==
    Cardinality({c \in Calls : chain[c].st = "timer"})
      + Cardinality({c \in Calls : conf[c].st = "timer"})

\* C1: when a later startLogin() began before a session's login was confirmed,
\* no token pair issued for that session is ever saved: the first save of a
\* session's tokens happens while that session is the newest one.
C1_OnlySecondSessionPersisted ==
    \A s \in Calls : firstWrite[s] # 0 => firstWrite[s] = s

\* C2: at every instant at most one login-poll timer is pending.
C2_OneLoginPollTimer == PollTimers <= 1

\* C3: every pair written to the store has a non-empty access token, a non-empty
\* refresh token and the session id of the controller's active session at the
\* moment of the write.
C3_WrittenPairValid ==
    last.op \in WriteOps =>
        /\ store.access_token # Empty
        /\ store.refresh_token # Empty
        /\ store.state = ActiveState


NoTimerPending == PollTimers = 0 /\ ~tokenRefreshInterval.armed

\* C4: after logout() has completed the store holds no access token and no
\* refresh token, until a startLogin() made after it is confirmed.
C4_StoreEmptyAfterLogout ==
    logoutMark # 0 => store.access_token = Empty /\ store.refresh_token = Empty

\* C5: after dispose(), and after logout() until the next startLogin(), no
\* initial-poll timer, confirmation-poll timer or refresh timer is pending.
C5_NoTimerAfterTeardown ==
    (disposed \/ (logoutMark # 0 /\ logoutMark = nCalls + 1)) => NoTimerPending

\* C6 as claimed: a startLogin() call made after dispose() is rejected with the
\* 'disposed' error and starts no polling.
CalledAfterDispose(c) == callsAtDispose >= 0 /\ c > callsAtDispose /\ pc[c] # "idle"
StartsNoPolling(c) ==
    chain[c].st = "none" /\ chain[c].attempt = 0 /\ conf[c].st = "none"
RefreshDecisions == {"refreshed", "refreshedThrew", "refreshRejected"}
LacksToken(reply) == reply.access_token = Empty \/ reply.refresh_token = Empty
C7_IncompleteRefreshRejected ==
    [][(last'.op \in RefreshDecisions /\ last'.reply.ok /\ LacksToken(last'.reply))
          => store' = store]_vars
C7_Witness ==
    /\ last.op = "refreshRejected"
    /\ last.reply.access_token # Empty
    /\ last.reply.refresh_token = Empty
    /\ store.refresh_token # Empty

RevokeFailed == last.reply.status \in {"httpError", "transportError"}
HandlesCleared ==
    /\ startLoginTokenPollInterval = 0
    /\ waitLoginPollingInterval = 0
    /\ ~tokenRefreshInterval.armed
C9_LogoutAlwaysSucceeds ==
    [][/\ last'.op = "logoutBegin" =>
            /\ HandlesCleared'
            /\ startLoginTokenPollInterval # 0 =>
                   chain'[startLoginTokenPollInterval].st # "timer"
            /\ waitLoginPollingInterval # 0 =>
                   conf'[waitLoginPollingInterval].st # "timer"
       /\ (logout = "revoking" /\ logout' # "revoking" /\ RevokeFailed') =>
            /\ logout' = "idle"
            /\ last'.op = "logoutDone"
            /\ store' = NoTokens
            /\ "logout" \in last'.notes]_vars
C9_Witness ==
    /\ last.op = "logoutDone"
    /\ last.reply.status = "transportError"
    /\ store = NoTokens
    /\ firstWrite # [s \in Calls |-> 0]

\* C10: every startLogin() call settles.  A call that has not settled needs a
\* token request in flight or a poll timer pending, since nothing else resolves
\* or rejects its promise: without one it waits forever.
C10_PollingCallCanSettle ==
    \A c \in Calls : pc[c] = "polling" => chain[c].st \in {"inflight", "timer"}

\* C11: the initial token poll of one startLogin() issues at most 60 token
\* requests; when the ceiling is exhausted without an accepted response the call
\* fails with the login-timeout error after exactly 60 requests, nothing has been
\* persisted and no confirmation poll has been started.
TokenRequests(c) ==
    IF chain[c].st = "rejected" THEN chain[c].attempt - 1 ELSE chain[c].attempt
NeverSaved == firstWrite = [s \in Calls |-> 0]
C11_TokenPollCeiling ==
    \A c \in Calls :
        /\ TokenRequests(c) <= 60
        /\ chain[c].attempt > 60 => pc[c] = "failed_timeout"
        /\ pc[c] = "failed_timeout" =>
              /\ TokenRequests(c) = 60
              /\ conf[c].st = "none"
              /\ NeverSaved
              /\ store \in {NoTokens, PriorTokens}
C11_Witness ==
    \E c \in Calls : pc[c] = "failed_timeout" /\ TokenRequests(c) = 60 /\ ~disposed

\* C12: the confirmation poll of one login calls the status endpoint at most 60
\* times.
StatusCalls(c) ==
    IF conf[c].st = "none" THEN 0
    ELSE IF conf[c].st \in {"inflight", "backoff", "done"} THEN conf[c].attempt + 1
    ELSE conf[c].attempt
C12_StatusCallCeiling == \A c \in Calls : StatusCalls(c) <= 60

\* C13: during a login the store is written only on a status response whose
\* status is LOGGED_IN and whose state equals the active session id; any other
\* response leaves the store unchanged and the poll is scheduled again (until
\* its ceiling).
ConfDecisions ==
    {"confirmed", "confirmedThrew", "confirmedThrewTimeout", "confPending",
     "confPendingTimeout"}
MatchesActive(reply) == reply.status = LOGGED_IN /\ reply.state = ActiveState
C13_WrittenOnlyOnMatch ==
    [][last'.op \in ConfDecisions =>
          /\ (last'.op \in WriteOps \/ store' # store) => MatchesActive(last'.reply)
          /\ ~MatchesActive(last'.reply) =>
                /\ store' = store
                /\ conf'[last'.who].attempt = conf[last'.who].attempt + 1
                /\ \/ conf'[last'.who].st = "timer" /\ waitLoginPollingInterval' = last'.who
                   \/ conf'[last'.who].st = "timeout" /\ conf'[last'.who].attempt > 60]_vars
C13_Witness ==
    /\ last.op = "confPending"
    /\ last.reply.success
    /\ last.reply.status = LOGGED_IN
    /\ last.reply.state # NoState
    /\ last.reply.state # ActiveState
    /\ conf[last.who].st = "timer"
    /\ store = NoTokens

\* C14: when the confirmation poll gets a successful response with status
\* LOGGED_IN and the matching state on a controller that is not disposed, the
\* token pair is persisted, the poll stops, the refresh timer is armed and the
\* login-success notification is emitted.
C14_ConfirmationCompletes ==
    [][(/\ last'.op \in ConfDecisions
        /\ last'.reply.success
        /\ last'.reply.state # NoState
        /\ MatchesActive(last'.reply)
        /\ ~disposed) =>
          /\ store' = TokensOf(obj[conf[last'.who].loginState])
          /\ conf'[last'.who].st = "done"
          /\ tokenRefreshInterval'.armed
          /\ "loginSuccess" \in last'.notes]_vars

\* C15 as claimed: a login whose initial poll has succeeded arms the refresh
\* timer: once its polling is over the timer has been armed.
C15_SucceededLoginArmsTimer ==
    \A c \in Calls :
        (chain[c].st = "resolved" /\ conf[c].st \in {"done", "timeout"} /\ ~disposed)
            => tokenRefreshInterval.armed

\* C15 amended: the initial poll succeeds on exactly the first response that
\* carries both tokens and the polled state: after k - 1 responses without
\* them and a k-th with them, k requests have been issued and none is issued
\* afterwards.  The login arms the refresh timer at most once, and only in the
\* step in which its confirmation poll confirms it.
HasBothTokensFor(reply, state) ==
    /\ reply.access_token # Empty
    /\ reply.refresh_token # Empty
    /\ reply.state = state
C15_SucceedsOnKthRequest ==
    [][\A c \in Calls :
          /\ (last'.op \in {"tokenAccepted", "tokenPending"} /\ last'.who = c) =>
                /\ chain[c].st = "inflight"
                /\ chain'[c].attempt = chain[c].attempt
                /\ IF HasBothTokensFor(last'.reply, chain[c].state)
                   THEN chain'[c].st = "resolved" /\ pc'[c] = "returned"
                   ELSE chain'[c].st = "timer" /\ pc'[c] = pc[c]
          /\ chain[c].st = "resolved" => chain'[c] = chain[c]
          /\ (tokenRefreshInterval'.armed /\ tokenRefreshInterval' # tokenRefreshInterval
               /\ last'.who = c) =>
                /\ last'.op = "confirmed"
                /\ conf[c].st = "inflight"
                /\ conf'[c].st = "done"
          /\ conf[c].st = "done" => conf'[c] = conf[c]]_vars
C15_Witness ==
    \E c \in Calls :
        /\ chain[c].st = "resolved"
        /\ chain[c].attempt = 3
        /\ last.op = "confirmed"
        /\ last.who = c
        /\ tokenRefreshInterval.armed

\* C16: in every reachable state at most one refresh timer is alive: arming a
\* refresh timer never leaves an earlier one alive.
RefreshTimersAlive ==
    tokenRefreshInterval.leaked + (IF tokenRefreshInterval.armed THEN 1 ELSE 0)
C16_OneRefreshTimer == RefreshTimersAlive <= 1
\* the timer armed at the confirmation of the only login was still armed when a
\* refresh re-armed it: nothing has stopped it in between
C16_Witness ==
    /\ last.op = "refreshed"
    /\ tokenRefreshInterval.armed
    /\ TokenSession(tokenRefreshInterval.refreshToken) = 1
    /\ TokenGen(tokenRefreshInterval.refreshToken) >= 1
    /\ nCalls = 1 /\ conf[1].st = "done"
    /\ ~disposed /\ logout = "idle" /\ logoutMark = 0
    /\ RefreshTimersAlive = 1

\* C17: when a refresh started by the refresh timer fails, the refresh-failure
\* message is shown, the timer stays armed and the store is not cleared.
TimerRefreshFailed ==
    /\ last'.op \in {"refreshRejected", "refreshThrown", "refreshedThrew"}
    /\ refreshOps[last'.who].timer
C17_FailedFiringKeepsTimer ==
    [][TimerRefreshFailed =>
          /\ "refreshFailed" \in last'.notes
          /\ tokenRefreshInterval.armed => tokenRefreshInterval'.armed
          /\ store # NoTokens => store' # NoTokens]_vars

\* C18: when every attempt of the refresh request fails, refreshToken throws the
\* last error after the third failed attempt, and none of its steps up to there
\* changes the stored tokens or the refresh timer.
C18_ExhaustedRetriesPropagate ==
    [][last'.op \in {"refreshError", "refreshRetry", "refreshThrown"} =>
          /\ store' = store
          /\ tokenRefreshInterval' = tokenRefreshInterval
          /\ last'.op = "refreshRetry" =>
                /\ refreshOps[last'.who].attempt < 2
                /\ refreshOps'[last'.who].st = "inflight"
          /\ last'.op = "refreshThrown" =>
                /\ refreshOps[last'.who].attempt = 2
                /\ ~last'.reply.ok
                /\ refreshOps'[last'.who].st = "none"
                /\ refreshOps[last'.who].timer => "refreshFailed" \in last'.notes]_vars
C18_Witness ==
    /\ last.op = "refreshThrown"
    /\ store.refresh_token # Empty
    /\ tokenRefreshInterval.armed

C20_StartLoginCancelsTimers ==
    [][/\ last'.op = "startLogin" =>
             PollTimers' = 0 /\ ~tokenRefreshInterval'.armed
       /\ (nCalls >= 1 /\ ~tokenRefreshInterval.armed /\ tokenRefreshInterval'.armed) =>
             last'.op = "confirmed"]_vars

\* C21: for a token whose expiry claim is E seconds, getTokenRefreshInterval at
\* time now returns 3000 when E * 1000 - 1800000 - now is zero or negative, that
\* value when it is positive and below 2147483647, and 2147483647 otherwise;
\* whatever the token, the value returned lies within [1, 2147483647].
RefreshDue(now) == MsAdd(now, Ms(1800, 0))
C21_IntervalFromExpiry ==
    timing.fn = "getTokenRefreshInterval" =>
        /\ MsLess(MsZero, timing.interval)
        /\ ~MsLess(Ms(2147483, 647), timing.interval)
        /\ timing.token.hasExp =>
              LET expiry == Ms(timing.token.exp, 0)
                  due == RefreshDue(timing.now)
              IN  IF ~MsLess(due, expiry) THEN timing.interval = Ms(3, 0)
                  ELSE IF ~MsLess(expiry, MsAdd(due, Ms(2147483, 647)))
                       THEN timing.interval = Ms(2147483, 647)
                       ELSE MsAdd(due, timing.interval) = expiry
C21_Witness ==
    /\ timing.fn = "getTokenRefreshInterval"
    /\ timing.token.hasExp
    /\ MsAdd(RefreshDue(timing.now), Ms(2147483, 647)) = Ms(timing.token.exp, 0)
    /\ timing.interval = Ms(2147483, 647)

\* C22: the interval with which the refresh timer is armed is the one computed
\* from the expiry claim of the pair's access token.
IntervalFromAccess(pair, now) == getTokenRefreshInterval(pair.access_token, now)
C22_IntervalFromAccessToken ==
    timing.fn = "startTokenRefresh" =>
        timing.interval = IntervalFromAccess(timing.pair, timing.now)

\* C23: retryWrapper called with maxAttempt 0 or 1 invokes the operation exactly
\* once and awaits no delay; when that attempt fails the error is raised without
\* waiting.
SingleAttempt == retry.given /\ retry.maxAttempt \in {0, 1}
C23_SingleAttemptNoDelay ==
    SingleAttempt =>
        /\ retry.calls <= 1
        /\ retry.st # "waiting"
        /\ retry.waits = 0
        /\ retry.st \in {"returned", "thrown"} => retry.calls = 1

\* C24: when every attempt fails, retryWrapper raises the error of the final
\* attempt (the rejection itself when it is an Error, otherwise an Error with
\* its text), never the placeholder error, whatever maxAttempt is.
C24_RaisesLastError ==
    retry.st = "thrown" =>
        /\ ~retry.outcome.ok
        /\ retry.raised.message = retry.outcome.error.message
        /\ retry.raised.kind = "Error"
        /\ retry.outcome.error.kind = "Error" => retry.raised = retry.outcome.error
        /\ retry.raised # PlaceholderError
        /\ retry.calls = Max(1, retry.maxAttempt)
C24_Witness ==
    /\ retry.st = "thrown"
    /\ retry.calls = 3
    /\ retry.outcome.error = [kind |-> "string", message |-> "e3"]
    /\ retry.raised = [kind |-> "Error", message |-> "e3"]

\* C25: retryWrapper invokes the operation at most max(1, maxAttempt) times, 3
\* by default; it returns the value of the first attempt that succeeds and
\* never invokes the operation after that.
C25_BoundedAttempts ==
    [][/\ retry'.calls <= Max(1, retry'.maxAttempt)
       /\ ~retry'.given => retry'.calls <= 3
       /\ (retry.st = "calling" /\ retry'.outcome.ok /\ retry'.st # "calling") =>
             retry'.st = "returned" /\ retry'.result = retry'.outcome.value
       /\ retry.st = "returned" => retry' = retry]_vars
C25_Witness ==
    /\ retry.st = "returned"
    /\ ~retry.given
    /\ retry.calls = 3
    /\ retry.result = "v2"

\* C26: checkLoginStatusOnStartup() returns true exactly when both persisted
\* tokens are present and a status call, of at most 2, reports LOGGED_IN;
\* without both tokens it returns false and makes no status call; when the
\* status calls fail it returns false.
BothTokensPersisted ==
    storage.provider /\ store.access_token # Empty /\ store.refresh_token # Empty
C26_TrueOnlyWhenServerConfirms ==
    /\ startup.calls <= 2
    /\ ~BothTokensPersisted => startup.calls = 0
    /\ startup.st = "returned" =>
          startup.result =
              (/\ BothTokensPersisted
               /\ startup.calls >= 1
               /\ startup.reply.ok
               /\ startup.reply.status = LOGGED_IN)
C26_Witness ==
    /\ startup.st = "returned"
    /\ BothTokensPersisted
    /\ startup.calls = 2
    /\ startup.reply.ok
    /\ startup.reply.status = LOGGING_IN
    /\ ~startup.result

\* C27: at activation, when the saved login is found valid, the refresh timer
\* is started.
C27_StartupArmsRefreshTimer ==
    (startup.st = "returned" /\ startup.result) => tokenRefreshInterval.armed

\* C28: when opening the browser fails during startLogin(), the failure is
\* reported to the user and the initial token poll of the new session still
\* runs.
BrowserNotOpened == last.reply.status \in {"notOpened", "threw"}
C28_OpenFailureKeepsPolling ==
    [][(/\ last'.op \in {"openFailed", "pollStarted"}
        /\ BrowserNotOpened'
        /\ ~disposed) =>
          /\ "loginFailed" \in last'.notes
          /\ chain'[last'.who].st = "inflight"
          /\ pc'[last'.who] = "polling"]_vars

\* C29: a transport or remote error of a status call inside the confirmation
\* poll is swallowed: it reaches no caller and changes neither the store nor
\* the refresh timer, it does not end the poll, and the poll is scheduled again
\* on the next tick until the ceiling is reached.
C29_StatusErrorsSwallowed ==
    [][last'.op \in {"confError", "confThrown", "confThrownTimeout"} =>
          /\ ~last'.reply.ok
          /\ store' = store
          /\ tokenRefreshInterval' = tokenRefreshInterval
          /\ pc' = pc
          /\ last'.op = "confError" => conf'[last'.who].st = "backoff"
          /\ last'.op = "confThrown" =>
                /\ conf'[last'.who].st = "timer"
                /\ waitLoginPollingInterval' = last'.who
                /\ conf'[last'.who].attempt = conf[last'.who].attempt + 1
                /\ conf'[last'.who].attempt <= maxAttempt
          /\ last'.op = "confThrownTimeout" =>
                /\ conf'[last'.who].st = "timeout"
                /\ conf'[last'.who].attempt > maxAttempt
                /\ "loginTimeout" \in last'.notes]_vars
C29_Witness ==
    /\ last.op = "confThrown"
    /\ conf[last.who].st = "timer"
    /\ conf[last.who].attempt = maxAttempt
    /\ waitLoginPollingInterval = last.who
    /\ pc[last.who] = "returned"

\* C30: saving tokens is idempotent: a saveTokens call with the pair of the call
\* before it writes nothing to the underlying store, and the store holds what
\* it held after the first call.
C30_SecondSaveWritesNothing ==
    [][(/\ storage.op = "saveTokens"
        /\ storage'.op = "saveTokens"
        /\ storage'.saves = storage.saves + 1
        /\ storage'.argument = storage.argument) =>
          /\ storage'.writes = storage.writes
          /\ store' = store]_vars


C32_ActiveStateIsNewest ==
    loginStateTmp # 0 => ActiveState = nCalls

\* C33: at most one refreshToken() call started by the refresh timer is in
\* progress (awaiting its response or a retry delay) at any instant.
C33_OneRefreshInProgress ==
    Cardinality({i \in RefreshSlots : refreshOps[i].st # "none" /\ refreshOps[i].timer}) <= 1

\* C34: whenever a refresh timer is armed, the refresh token it will send on
\* its next firing is the refresh token persisted in the store.
C34_TimerSendsStoredToken ==
    tokenRefreshInterval.armed
        => tokenRefreshInterval.refreshToken = store.refresh_token

C36_NoSaveAfterDispose ==
    [][disposed => last'.op \notin WriteOps]_vars

\* C37: a startLogin() call made on a disposed controller and rejected for that
\* reason has had no side effect: openExternal was not invoked for it and
\* loginStateTmp is not the object the call generated.
OpenExternalInvoked == last.reply.status \in OpenOutcomes
C37_RejectedWithoutEffects ==
    (last.op = "rejectDisposed" /\ CalledAfterDispose(last.who))
        => (~OpenExternalInvoked /\ loginStateTmp # last.who)

\* C38: whenever the login-success notification is emitted the store holds the
\* confirmed session's pair: a getTokens() made right after returns the access
\* token and the refresh token of the login state the notification carries.
LoginSuccessEmitted == "loginSuccess" \in last.notes
ConfirmedLoginState == obj[conf[last.who].loginState]
C38_StoreHoldsConfirmedPair ==
    LoginSuccessEmitted =>
        /\ ConfirmedLoginState.access_token # Empty
        /\ ConfirmedLoginState.refresh_token # Empty
        /\ getTokens.access_token = ConfirmedLoginState.access_token
        /\ getTokens.refresh_token = ConfirmedLoginState.refresh_token

\* C39: in the historical controller a login never persists a pair whose
\* access token or refresh token is empty or missing: the answer of the token
\* request is taken only when it holds both tokens and the session id asked
\* about.
C39_HistoricPersistsCompletePair ==
    [][last'.op \in {"confirmed", "confirmedThrew"} =>
          /\ store'.access_token # Empty
          /\ store'.refresh_token # Empty
          /\ store'.state = last'.reply.state]_vars

\* C40: in the historical controller confirmation polling stops on timeout:
\* once the attempt count has passed the ceiling of 60, no status request is
\* pending or scheduled (and so the timeout message is shown once).
C40_HistoricPollingStops ==
    \A c \in Calls :
        conf[c].attempt > maxAttempt => conf[c].st \notin {"timer", "inflight", "backoff"}

====
